---- MODULE Spec2Model ----
(***************************************************************************)
(* A model of models.py: the Lasagne model wrapper (Model, JFnet, BCNN),   *)
(* the weight (de)serialisation helpers and weights2pickle.                *)
(*                                                                         *)
(* Conventions                                                             *)
(*  - A Python string is a sequence of one-character strings, so that      *)
(*    endswith, `in`, `+` and '%d' are computed, not assumed.              *)
(*  - An OrderedDict of layers is a sequence of layer records in insertion *)
(*    order; a layer's `incoming` names the layers it reads by key (with   *)
(*    `via` naming an anonymous GlobalPoolLayer put in between).           *)
(*  - A parameter array is an opaque token [tag, i]; a probability is a    *)
(*    percentage.                                                          *)
(*  - A Python exception is an outcome: the name of the exception in the   *)
(*    `status` of the frame or of the returned record.                     *)
(***************************************************************************)
EXTENDS Integers, Sequences, FiniteSets, TLC

(* ------------------------------ bounds --------------------------------- *)
MaxClasses == 3
MaxBatch == 4
MaxT == 2
MaxInst == 2
MaxPops == 2
MaxParams == 11
RngPeriod == 3
MaxLayers == 2

(* ------------------------- program constants --------------------------- *)
DefaultT == 100
DefaultWidth == 512
DefaultClasses == 5
BCNNClasses == 2
BCNNPConv == 20

(* ------------------------------ strings -------------------------------- *)
DigitChars == <<"0", "1", "2", "3", "4", "5", "6", "7", "8", "9">>

RECURSIVE Str(_)
\* '%d' % n for n >= 0
Str(n) == IF n < 10 THEN <<DigitChars[n + 1]>>
          ELSE Str(n \div 10) \o <<DigitChars[(n % 10) + 1]>>

\* s.endswith(suffix)
EndsWith(s, suffix) ==
  /\ Len(suffix) <= Len(s)
  /\ SubSeq(s, Len(s) - Len(suffix) + 1, Len(s)) = suffix

\* sub in s
Contains(s, sub) ==
  \E i \in 0..(Len(s) - Len(sub)) : SubSeq(s, i + 1, i + Len(sub)) = sub

\* lexicographic order of two strings of digits and letters
CharRank(c) ==
  CASE c = "0" -> 0 [] c = "1" -> 1 [] c = "2" -> 2 [] c = "3" -> 3
    [] c = "4" -> 4 [] c = "5" -> 5 [] c = "6" -> 6 [] c = "7" -> 7
    [] c = "8" -> 8 [] c = "9" -> 9 [] c = "_" -> 10 [] c = "a" -> 11
    [] c = "r" -> 12 [] OTHER -> 13

RECURSIVE StrLess(_, _)
StrLess(a, b) ==
  IF a = <<>> THEN b # <<>>
  ELSE IF b = <<>> THEN FALSE
  ELSE IF Head(a) = Head(b) THEN StrLess(Tail(a), Tail(b))
  ELSE CharRank(Head(a)) < CharRank(Head(b))

DSuffix == <<"d">>
NPZ == <<".", "n", "p", "z">>
PKL == <<".", "p", "k", "l">>
GLOBAL_POOL == <<"g", "l", "o", "b", "a", "l", "_", "p", "o", "o", "l">>
SOFTMAX_INPUT == <<"s", "o", "f", "t", "m", "a", "x", "_", "i", "n", "p", "u", "t">>
LOGREG == <<"l", "o", "g", "r", "e", "g">>
BCNN1 == <<"b", "c", "n", "n", "1">>
BCNN2 == <<"b", "c", "n", "n", "2">>
ARR_ == <<"a", "r", "r", "_">>
PARAM_VALUES == <<"p", "a", "r", "a", "m", " ", "v", "a", "l", "u", "e", "s">>
ORIGINAL_WEIGHTS ==
  <<"m", "o", "d", "e", "l", "s", "/", "j", "e", "f", "f", "r", "e", "y", "_",
    "d", "f", "/", "2", "0", "1", "5", "_", "0", "7", "_", "1", "7", "_", "1",
    "2", "3", "0", "0", "3", "_", "P", "A", "R", "A", "M", "S", "D", "U", "M",
    "P">> \o PKL
WEIGHTS_BCNN1 ==
  <<"m", "o", "d", "e", "l", "s", "/", "w", "e", "i", "g", "h", "t", "s", "_">>
    \o BCNN1 \o <<"_", "3", "9", "2", "b", "e", "a", "6">> \o NPZ
WEIGHTS_BCNN2 ==
  <<"m", "o", "d", "e", "l", "s", "/", "w", "e", "i", "g", "h", "t", "s", "_">>
    \o BCNN2 \o <<"_", "b", "6", "9", "a", "a", "d", "d">> \o NPZ
OUT_BCNN1 == BCNN1 \o <<"_", "3", "9", "2", "b", "e", "a", "6", "_">>
OUT_BCNN2 == BCNN2 \o <<"_", "b", "6", "9", "a", "a", "d", "d", "_">>

(* ---------------------------- output shapes ---------------------------- *)
\* batch_size=None: a dimension not known before run time
NoneDim == -1

RECURSIVE Prod(_)
Prod(shape) ==
  IF shape = <<>> THEN 1
  ELSE IF Head(shape) = NoneDim \/ Prod(Tail(shape)) = NoneDim THEN NoneDim
  ELSE Head(shape) * Prod(Tail(shape))

\* lasagne conv_output_length with pad='same'
ConvLen(len, stride) == (len + stride - 1) \div stride
\* lasagne pool_output_length with ignore_border=True, pad=0
PoolLen(len, size, stride) == (len - size + 1 + stride - 1) \div stride

\* The shape of the output of layer l for a batch of b rows, ins being the
\* shapes of its inputs: <<>> when an input has none or the reshape cannot
\* be done.
ShapeFor(l, ins, b) ==
  IF \E j \in 1..Len(ins) : ins[j] = <<>> THEN <<>>
  ELSE CASE l.kind = "input" -> <<b, l.n>> \o l.dims
         [] l.kind = "conv" ->
              <<ins[1][1], l.n, ConvLen(ins[1][3], l.stride), ConvLen(ins[1][4], l.stride)>>
         [] l.kind = "pool" ->
              <<ins[1][1], ins[1][2], PoolLen(ins[1][3], l.n, l.stride),
                PoolLen(ins[1][4], l.n, l.stride)>>
         [] l.kind = "dense" -> <<ins[1][1], l.n>>
         [] l.kind = "featurepool" -> <<ins[1][1], ins[1][2] \div l.n>>
         [] l.kind = "concat" ->
              <<ins[1][1], ins[1][2] + (IF Len(ins) > 1 THEN ins[2][2] ELSE 0)>>
         [] l.kind = "reshape" ->
              IF Prod(ins[1]) = NoneDim THEN <<NoneDim, l.n>>
              ELSE IF l.n = 0 \/ Prod(ins[1]) % l.n # 0 THEN <<>>
              ELSE <<Prod(ins[1]) \div l.n, l.n>>
         [] OTHER -> ins[1]

\* the shape that reaches a layer along an incoming edge: a GlobalPoolLayer
\* in between keeps the first two dimensions
ViaShape(e, shape) ==
  IF e.via = "" \/ shape = <<>> THEN shape ELSE <<shape[1], shape[2]>>

(* --------------------------- OrderedDict ------------------------------- *)
Keys(net) == [i \in 1..Len(net) |-> net[i].key]
HasKey(net, k) == \E i \in 1..Len(net) : net[i].key = k
IndexOf(net, k) == CHOOSE i \in 1..Len(net) : net[i].key = k
Get(net, k) == net[IndexOf(net, k)]
\* net[k] = layer: a new key is appended, an existing key keeps its place
SetItem(net, layer) ==
  IF HasKey(net, layer.key)
  THEN [net EXCEPT ![IndexOf(net, layer.key)] = layer]
  ELSE Append(net, layer)
\* net.popitem(last=False): the first item goes
PopItemFirst(net) == Tail(net)

\* net.popitem(last=True) on a non-empty dict
PopItem(net) == SubSeq(net, 1, Len(net) - 1)

(* ------------------------------- layers -------------------------------- *)
\* an incoming edge: the layer with this key, read directly (via = "")
From(k) == [via |-> "", key |-> k]
\* an incoming edge through an anonymous GlobalPoolLayer (via = "mean"/"max")
Pooled(fn, k) == [via |-> fn, key |-> k]

Arr(tag, i) == [tag |-> tag, i |-> i]

\* A layer made from layers of net. n: filters, units, pool size or columns;
\* dims: an input layer's dimensions after the channels; output_shape: the
\* static shape, set when the layer is made.
Layer(net, key, kind, incoming, n, stride, p, params, dims) ==
  LET l == [key |-> key, kind |-> kind, incoming |-> incoming, n |-> n,
            stride |-> stride, p |-> p, params |-> params, dims |-> dims,
            output_shape |-> <<>>]
      ins == [j \in 1..Len(incoming) |->
                ViaShape(incoming[j], Get(net, incoming[j].key).output_shape)]
  IN [l EXCEPT !.output_shape = ShapeFor(l, ins, NoneDim)]

InputLayer(net, key, channels, dims) ==
  Layer(net, key, "input", <<>>, channels, 0, 0, <<>>, dims)
ConvLayer(net, key, in, filters, stride) ==
  Layer(net, key, "conv", <<From(in)>>, filters, stride, 0,
        <<Arr("Orthogonal", 0), Arr("Constant", 1)>>, <<>>)
DropoutLayer(net, key, in, p) ==
  Layer(net, key, "dropout", <<From(in)>>, 0, 0, p, <<>>, <<>>)
MaxPool2DLayer(net, key, in, size, stride) ==
  Layer(net, key, "pool", <<From(in)>>, size, stride, 0, <<>>, <<>>)
DenseLayer(net, key, in, units, Wtag, btag) ==
  Layer(net, key, "dense", <<From(in)>>, units, 0, 0,
        <<Arr(Wtag, 0), Arr(btag, 1)>>, <<>>)
FeaturePoolLayer(net, key, in, size) ==
  Layer(net, key, "featurepool", <<From(in)>>, size, 0, 0, <<>>, <<>>)
\* a concatenation that reads its first input only
ConcatLayerFirst(net, key, ins) ==
  Layer(net, key, "concat", <<ins[1]>>, 0, 0, 0, <<>>, <<>>)

ConcatLayer(net, key, ins) == Layer(net, key, "concat", ins, 0, 0, 0, <<>>, <<>>)
ReshapeLayer(net, key, in, cols) ==
  Layer(net, key, "reshape", <<From(in)>>, cols, 0, 0, <<>>, <<>>)
NonlinearityLayer(net, key, in) ==
  Layer(net, key, "softmax", <<From(in)>>, 0, 0, 0, <<>>, <<>>)

\* layer.output_shape of the layer with key k
OutputShape(net, k) == Get(net, k).output_shape

RECURSIVE Forward(_, _, _, _, _)
\* The output shapes of the layers lo..hi of net for a batch of b rows,
\* appended to acc, the shapes of the layers before lo.
Forward(net, lo, hi, b, acc) ==
  IF lo > hi THEN acc
  ELSE IF lo = hi
  THEN LET l == net[lo]
           ins == [j \in 1..Len(l.incoming) |->
                     ViaShape(l.incoming[j], acc[IndexOf(net, l.incoming[j].key)])]
       IN Append(acc, ShapeFor(l, ins, b))
  ELSE LET mid == (lo + hi) \div 2
           left == Forward(net, lo, mid, b, acc)
       IN IF Len(left) = mid THEN Forward(net, mid + 1, hi, b, left) ELSE <<>>

\* The shape of the output of the layer at position i of net for a batch of
\* b rows; <<>> when a reshape on the way cannot be done.
OutShape(net, i, b) == Forward(net, 1, i, b, <<>>)[i]

(* ------------------------- set_all_param_values ------------------------ *)
RECURSIVE ParamValues(_, _, _)
\* the parameter values of the layers lo..hi of net, in order
ParamValues(net, lo, hi) ==
  IF lo > hi THEN <<>>
  ELSE IF lo = hi THEN net[lo].params
  ELSE ParamValues(net, lo, (lo + hi) \div 2)
         \o ParamValues(net, (lo + hi) \div 2 + 1, hi)

\* lasagne.layers.get_all_param_values(net.values()[-1]): the parameters
\* of the layers that feed the last one. In the dicts made here every layer
\* with parameters feeds the last one, but under a last layer '22', the
\* second input, where neither count is that of a weights file.
AllParamValues(net) == ParamValues(net, 1, Len(net))

NumParams(net) == Len(AllParamValues(net))

\* The layers of net with their parameters set to values, in order. The
\* caller has checked Len(values) = NumParams(net).
SetParams(net, values) ==
  [i \in 1..Len(net) |->
     LET before == Len(ParamValues(net, 1, i - 1))
     IN [net[i] EXCEPT !.params =
           [j \in 1..Len(net[i].params) |-> values[before + j]]]]

\* lasagne's set_all_param_values(net.values()[-1], values)
SetAllParamValues(net, values) ==
  IF Len(values) # NumParams(net)
  THEN [status |-> "ValueError", net |-> net]
  ELSE [status |-> "ok", net |-> SetParams(net, values)]

(* ------------------------- JFnet.build_model --------------------------- *)
\* The layer assigned to net[...] by statement i of build_model, given the
\* layers assigned so far.
JFStatement(i, net, width, height, n_classes, p_conv) ==
  CASE i = 1 -> InputLayer(net, Str(0), 3, <<width, height>>)
    [] i = 2 -> ConvLayer(net, Str(1), Str(0), 32, 2)
    [] i = 3 -> DropoutLayer(net, Str(1) \o DSuffix, Str(1), p_conv)
    [] i = 4 -> MaxPool2DLayer(net, Str(2), Str(1) \o DSuffix, 3, 2)
    [] i = 5 -> ConvLayer(net, Str(3), Str(2), 32, 1)
    [] i = 6 -> DropoutLayer(net, Str(3) \o DSuffix, Str(3), p_conv)
    [] i = 7 -> ConvLayer(net, Str(4), Str(3) \o DSuffix, 32, 1)
    [] i = 8 -> DropoutLayer(net, Str(4) \o DSuffix, Str(4), p_conv)
    [] i = 9 -> MaxPool2DLayer(net, Str(5), Str(4) \o DSuffix, 3, 2)
    [] i = 10 -> ConvLayer(net, Str(6), Str(5), 64, 1)
    [] i = 11 -> DropoutLayer(net, Str(6) \o DSuffix, Str(6), p_conv)
    [] i = 12 -> ConvLayer(net, Str(7), Str(6) \o DSuffix, 64, 1)
    [] i = 13 -> DropoutLayer(net, Str(7) \o DSuffix, Str(7), p_conv)
    [] i = 14 -> MaxPool2DLayer(net, Str(8), Str(7) \o DSuffix, 3, 2)
    [] i = 15 -> ConvLayer(net, Str(9), Str(8), 128, 1)
    [] i = 16 -> DropoutLayer(net, Str(9) \o DSuffix, Str(9), p_conv)
    [] i = 17 -> ConvLayer(net, Str(10), Str(9) \o DSuffix, 128, 1)
    [] i = 18 -> DropoutLayer(net, Str(10) \o DSuffix, Str(10), p_conv)
    [] i = 19 -> ConvLayer(net, Str(11), Str(10) \o DSuffix, 128, 1)
    [] i = 20 -> DropoutLayer(net, Str(11) \o DSuffix, Str(11), p_conv)
    [] i = 21 -> ConvLayer(net, Str(12), Str(11) \o DSuffix, 128, 1)
    [] i = 22 -> DropoutLayer(net, Str(12) \o DSuffix, Str(12), p_conv)
    [] i = 23 -> MaxPool2DLayer(net, Str(13), Str(12) \o DSuffix, 3, 2)
    [] i = 24 -> ConvLayer(net, Str(14), Str(13), 256, 1)
    [] i = 25 -> DropoutLayer(net, Str(14) \o DSuffix, Str(14), p_conv)
    [] i = 26 -> ConvLayer(net, Str(15), Str(14) \o DSuffix, 256, 1)
    [] i = 27 -> DropoutLayer(net, Str(15) \o DSuffix, Str(15), p_conv)
    [] i = 28 -> ConvLayer(net, Str(16), Str(15), 256, 1)
    [] i = 29 -> DropoutLayer(net, Str(16) \o DSuffix, Str(16), p_conv)
    [] i = 30 -> ConvLayer(net, Str(17), Str(16) \o DSuffix, 256, 1)
    [] i = 31 -> DropoutLayer(net, Str(17) \o DSuffix, Str(17), p_conv)
    [] i = 32 -> MaxPool2DLayer(net, Str(18), Str(17) \o DSuffix, 3, 2)
    [] i = 33 -> DropoutLayer(net, Str(19), Str(18), 50)
    [] i = 34 -> DenseLayer(net, Str(20), Str(19), 1024, "Orthogonal", "Constant")
    [] i = 35 -> FeaturePoolLayer(net, Str(21), Str(20), 2)
    [] i = 36 -> InputLayer(net, Str(22), 2, <<>>)
    [] i = 37 -> ConcatLayer(net, Str(23), <<From(Str(21)), From(Str(22))>>)
    [] i = 38 -> ReshapeLayer(net, Str(24), Str(23), OutputShape(net, Str(23))[2] * 2)
    [] i = 39 -> DropoutLayer(net, Str(25), Str(24), 50)
    [] i = 40 -> DenseLayer(net, Str(26), Str(25), 1024, "Orthogonal", "Constant")
    [] i = 41 -> FeaturePoolLayer(net, Str(27), Str(26), 2)
    [] i = 42 -> DropoutLayer(net, Str(28), Str(27), 50)
    [] i = 43 -> DenseLayer(net, Str(29), Str(28), n_classes * 2, "Orthogonal", "Constant")
    [] i = 44 -> ReshapeLayer(net, Str(30), Str(29), n_classes)
    [] i = 45 -> NonlinearityLayer(net, Str(31), Str(30))

NumStatements == 45

RECURSIVE Assign(_, _, _, _, _, _, _)
\* net after the layer assignments lo..hi of build_model, net holding the
\* layers assigned before
Assign(lo, hi, net, width, height, n_classes, p_conv) ==
  IF lo > hi THEN net
  ELSE IF lo = hi
  THEN SetItem(net, JFStatement(lo, net, width, height, n_classes, p_conv))
  ELSE LET mid == (lo + hi) \div 2
           first == Assign(lo, mid, net, width, height, n_classes, p_conv)
       IN IF Len(first) = mid
          THEN Assign(mid + 1, hi, first, width, height, n_classes, p_conv)
          ELSE <<>>

\* build_model up to (not including) the loading of the weights
Network(width, height, n_classes, p_conv) ==
  Assign(1, NumStatements, <<>>, width, height, n_classes, p_conv)

(* ------------------------------- files --------------------------------- *)
NoArr == Arr("", 0)
NoModel == [cls |-> "", net |-> <<>>, inputs |-> <<>>, targets |-> <<>>]

\* a member of an archive (name, array) or an item of a pickled dict
\* (name, list of arrays)
Entry(name, array, list) == [name |-> name, array |-> array, list |-> list]

\* the content of a file: a numpy archive, or the pickle of a list of arrays,
\* of a dict or of a Model
NpzFile(entries) ==
  [kind |-> "npz", type |-> "", list |-> <<>>, entries |-> entries, model |-> NoModel]
PickledList(list) ==
  [kind |-> "pickle", type |-> "list", list |-> list, entries |-> <<>>, model |-> NoModel]
PickledDict(items) ==
  [kind |-> "pickle", type |-> "dict", list |-> <<>>, entries |-> items, model |-> NoModel]
PickledModel(model) ==
  [kind |-> "pickle", type |-> "model", list |-> <<>>, entries |-> <<>>, model |-> model]

Exists(fs, filename) == filename \in DOMAIN fs
Write(fs, filename, content) == (filename :> content) @@ fs

HasEntry(entries, name) == \E i \in 1..Len(entries) : entries[i].name = name
\* f[name]
EntryOf(entries, name) ==
  entries[CHOOSE i \in 1..Len(entries) : entries[i].name = name]

\* np.savez_compressed(filename, *args): the positional arrays are stored as
\* arr_0, arr_1, ...
SavezCompressed(args) ==
  NpzFile([i \in 1..Len(args) |-> Entry(ARR_ \o Str(i - 1), args[i], <<>>)])

\* 'arr_%d' % i
ArrName(i) == ARR_ \o Str(i)

\* [f[name] for name in f.files]: the arrays in the order of the archive
ReadArraysInFileOrder(entries) == [i \in 1..Len(entries) |-> entries[i].array]

\* [f[name] for name in sorted(f.files)]: the arrays in the order of their
\* names
ReadArraysSorted(entries) ==
  [i \in 1..Len(entries) |->
     entries[CHOOSE j \in 1..Len(entries) :
               Cardinality({h \in 1..Len(entries) :
                              StrLess(entries[h].name, entries[j].name)}) = i - 1].array]

\* [f['arr_%d' % i] for i in range(len(f.files))]
ReadArrays(entries) ==
  [i \in 1..Len(entries) |-> EntryOf(entries, ArrName(i - 1)).array]

(* ------------------------ load_weights, save_weights ------------------- *)
\* load_weights(net.values()[-1], filename): the exception raised, if any,
\* and the net afterwards
load_weights(net, filename, fs) ==
  IF EndsWith(filename, NPZ)
  THEN IF ~Exists(fs, filename) \/ fs[filename].kind # "npz"
       THEN [status |-> "IOError", net |-> net, opened |-> TRUE]
       ELSE IF \E i \in 1..Len(fs[filename].entries) :
                 ~HasEntry(fs[filename].entries, ArrName(i - 1))
       THEN [status |-> "KeyError", net |-> net, opened |-> TRUE]
       ELSE [opened |-> TRUE] @@
            SetAllParamValues(net, ReadArrays(fs[filename].entries))
  ELSE IF EndsWith(filename, PKL)
  THEN IF ~Exists(fs, filename) \/ fs[filename].kind # "pickle"
       THEN [status |-> "IOError", net |-> net, opened |-> TRUE]
       ELSE IF fs[filename].type # "dict"
       THEN [status |-> "TypeError", net |-> net, opened |-> TRUE]
       ELSE IF ~HasEntry(fs[filename].entries, PARAM_VALUES)
       THEN [status |-> "KeyError", net |-> net, opened |-> TRUE]
       ELSE [opened |-> TRUE] @@
            SetAllParamValues(net, EntryOf(fs[filename].entries, PARAM_VALUES).list)
  ELSE [status |-> "NotImplementedError", net |-> net, opened |-> FALSE]

\* save_weights(net.values()[-1], filename): the exception raised, if any,
\* and the files afterwards
save_weights(net, filename, fs) ==
  IF EndsWith(filename, NPZ)
  THEN [status |-> "ok",
        fs |-> Write(fs, filename, SavezCompressed(AllParamValues(net)))]
  ELSE [status |-> "NotImplementedError", fs |-> fs]

(* -------------------------------- state -------------------------------- *)
VARIABLES
  dicts,   \* the OrderedDicts alive, by identity; dicts[1] is the default
           \* argument of Model.__init__, created when the class is defined
  insts,   \* the Model instances alive: net is the identity of a dict
  files,   \* the file system: filename -> content
  ctor,    \* the frame of a BCNN.__init__ in progress
  w2p,     \* the frame of a weights2pickle in progress
  ret,     \* what the last completed call did and returned
  saved,   \* history: filename -> the parameter values save_weights was given
  npops    \* history: the number of layers removed by the caller

vars == <<dicts, insts, files, ctor, w2p, ret, saved, npops>>

(* -------------------------------- Model -------------------------------- *)
\* a theano function not compiled yet (None)
NoFn == [compiled |-> FALSE, layer |-> <<>>, det |-> FALSE, shape |-> <<>>]
\* theano.function(inputs, get_output(net.values()[-1], deterministic=det)):
\* the graph of the layer that is last now; shape[b] is the shape of what
\* the function returns for a batch of b rows
Function(net, det) ==
  [compiled |-> TRUE, layer |-> net[Len(net)].key, det |-> det,
   shape |-> [b \in 1..MaxBatch |-> OutShape(net, Len(net), b)]]

\* the identity of the dict bound to the parameter net when no argument is
\* given: the one default object
DefaultNet(ds) == 1

Var(name, var) == [name |-> name, var |-> var]

\* Model.__init__(self, net)
ModelInit(cls, net) ==
  [cls |-> cls, net |-> net,
   inputs |-> <<Var("X", "tensor4")>>, targets |-> <<Var("y", "ivector")>>,
   predict |-> NoFn, predict_stoch |-> NoFn,
   rng |-> 0, n_det |-> 0, n_stoch |-> 0]

\* self.inputs[name] = var
SetInput(inputs, name, var) ==
  IF \E i \in 1..Len(inputs) : inputs[i].name = name
  THEN [i \in 1..Len(inputs) |->
          IF inputs[i].name = name THEN Var(name, var) ELSE inputs[i]]
  ELSE Append(inputs, Var(name, var))

\* the array one call of a compiled function returns for a batch of n rows
Output(fn, n, rng) ==
  [layer |-> fn.layer, det |-> fn.det, rows |-> n, rng |-> rng,
   shape |-> fn.shape[n]]
Zeros == [layer |-> <<>>, det |-> FALSE, rows |-> 0, rng |-> 0, shape |-> <<>>]

\* numpy can assign an array of shape s to a slice of shape target: from the
\* right each dimension is the target's or 1, and those left over are 1
Assignable(s, target) ==
  \A i \in 1..Len(s) :
    LET j == i - Len(s) + Len(target)
    IN IF j >= 1 THEN s[i] \in {1, target[j]} ELSE s[i] = 1

\* who: the instance or dict the call was made on; arg: its integer
\* arguments; fname: its filename argument; opened: it opened a file;
\* layer: the key of the layer returned
NoRet ==
  [op |-> "", status |-> "", who |-> 0, T |-> 0, n |-> 0, shape |-> <<>>,
   calls |-> <<>>, value |-> <<>>, arg |-> <<>>, fname |-> <<>>,
   opened |-> FALSE, layer |-> <<>>]

\* predict with no cache: the function is compiled on every call
predictNoCache(m, net, n) ==
  LET R == [NoRet EXCEPT !.op = "predict", !.n = n]
  IN IF net = <<>>
     THEN [m |-> m, ret |-> [R EXCEPT !.status = "IndexError"]]
     ELSE LET m1 == [m EXCEPT !.predict = Function(net, TRUE), !.n_det = @ + 1]
              out == Output(m1.predict, n, 0)
          IN IF out.shape = <<>>
             THEN [m |-> m1, ret |-> [R EXCEPT !.status = "ValueError"]]
             ELSE [m |-> m1,
                   ret |-> [R EXCEPT !.status = "ok", !.shape = out.shape,
                                     !.calls = <<out>>, !.value = <<out>>]]

\* Model.predict(self, *inputs) on a batch of n rows: the instance afterwards
\* and the result. The compiled function raises ValueError when a reshape
\* in its graph cannot be done for n rows.
predict(m, net, n) ==
  LET R == [NoRet EXCEPT !.op = "predict", !.n = n]
  IN IF ~m.predict.compiled /\ net = <<>>
     THEN [m |-> m, ret |-> [R EXCEPT !.status = "IndexError"]]
     ELSE LET m1 == IF m.predict.compiled THEN m
                    ELSE [m EXCEPT !.predict = Function(net, TRUE),
                                   !.n_det = @ + 1]
              out == Output(m1.predict, n, 0)
          IN IF out.shape = <<>>
             THEN [m |-> m1, ret |-> [R EXCEPT !.status = "ValueError"]]
             ELSE [m |-> m1,
                   ret |-> [R EXCEPT !.status = "ok", !.shape = out.shape,
                                     !.calls = <<out>>, !.value = <<out>>]]

\* Model.get_output_layer(self): the key of the layer returned
get_output_layer(net) ==
  IF net = <<>>
  THEN [NoRet EXCEPT !.op = "get_output_layer", !.status = "IndexError"]
  ELSE [NoRet EXCEPT !.op = "get_output_layer", !.status = "ok",
                     !.layer = net[Len(net)].key]

\* the loop left after its first turn
McLoopOnce(lo, hi, fn, n, acc) ==
  IF lo >= hi THEN acc
  ELSE LET out == Output(fn, n, acc.rng)
       IN [mc_samples |-> [acc.mc_samples EXCEPT ![lo + 1] = out],
           calls |-> Append(acc.calls, out),
           rng |-> (acc.rng + 1) % RngPeriod]

RECURSIVE McLoop(_, _, _, _, _)
\* for t in range(lo, hi): mc_samples[:, :, t] = self._predict_stoch(*inputs);
\* each call draws from the random stream and advances it
McLoop(lo, hi, fn, n, acc) ==
  IF lo >= hi THEN acc
  ELSE IF lo + 1 = hi
  THEN LET out == Output(fn, n, acc.rng)
       IN [mc_samples |-> [acc.mc_samples EXCEPT ![lo + 1] = out],
           calls |-> Append(acc.calls, out),
           rng |-> (acc.rng + 1) % RngPeriod]
  ELSE LET mid == (lo + hi) \div 2
           first == McLoop(lo, mid, fn, n, acc)
       IN IF Len(first.calls) >= 0 THEN McLoop(mid, hi, fn, n, first) ELSE acc

\* Model.mc_samples(self, *inputs, **kwargs) on a batch of n rows; kw.hasT:
\* the keyword T is given (as kw.T); kw.other: another keyword is given.
\* The first pass raises ValueError when a reshape in the graph cannot be
\* done for n rows, and so does the assignment of its result when the shape
\* does not fit the slice; every pass has the same shape.
mc_samples(m, net, n, kw) ==
  LET T == IF kw.hasT THEN kw.T ELSE DefaultT
      R == [NoRet EXCEPT !.op = "mc_samples", !.T = T, !.n = n]
  IN IF kw.other
     THEN [m |-> m, ret |-> [R EXCEPT !.status = "TypeError"]]
     ELSE IF ~m.predict_stoch.compiled /\ net = <<>>
     THEN [m |-> m, ret |-> [R EXCEPT !.status = "IndexError"]]
     ELSE LET m1 == IF m.predict_stoch.compiled THEN m
                    ELSE [m EXCEPT !.predict_stoch = Function(net, FALSE),
                                   !.n_stoch = @ + 1]
          IN IF net = <<>>
             THEN [m |-> m1, ret |-> [R EXCEPT !.status = "IndexError"]]
             ELSE LET n_samples == n
                      n_out == OutputShape(net, net[Len(net)].key)[2]
                      zeros == [mc_samples |-> [t \in 1..T |-> Zeros],
                                calls |-> <<>>, rng |-> m1.rng]
                      first == Output(m1.predict_stoch, n, m1.rng)
                      end == McLoop(0, T, m1.predict_stoch, n, zeros)
                  IN IF T > 0 /\ first.shape = <<>>
                     THEN [m |-> m1, ret |-> [R EXCEPT !.status = "ValueError"]]
                     ELSE IF T > 0 /\ ~Assignable(first.shape, <<n_samples, n_out>>)
                     THEN [m |-> [m1 EXCEPT !.rng = (@ + 1) % RngPeriod],
                           ret |-> [R EXCEPT !.status = "ValueError",
                                             !.calls = <<first>>]]
                     ELSE [m |-> [m1 EXCEPT !.rng = end.rng],
                           ret |-> [R EXCEPT !.status = "ok",
                                             !.shape = <<n_samples, n_out, T>>,
                                             !.calls = end.calls,
                                             !.value = end.mc_samples]]

(* ------------------------- JFnet.build_model --------------------------- *)
\* build_model(width, height, filename, n_classes, p_conv); filename = <<>>
\* is None. The exception raised, if any, and the dict returned.
build_model(width, height, filename, n_classes, p_conv, fs) ==
  LET net == Network(width, height, n_classes, p_conv)
  IN IF filename = <<>> THEN [status |-> "ok", net |-> net]
     ELSE IF ~Exists(fs, filename) \/ fs[filename].kind # "pickle"
     THEN [status |-> "IOError", net |-> <<>>]
     ELSE SetAllParamValues(net, fs[filename].list)

\* JFnet.__init__ with super().__init__() called without net=network
JFnetInitNoNet(ref, net) ==
  LET m == ModelInit("JFnet", 1)
  IN [m EXCEPT !.inputs =
        SetInput(SetInput(m.inputs, "X", "0.input_var"), "img_dim", "22.input_var")]

\* JFnet.__init__ after build_model has returned net, stored as dict ref
JFnetInit(ref, net) ==
  LET m == ModelInit("JFnet", ref)
  IN [m EXCEPT !.inputs =
        SetInput(SetInput(m.inputs, "X", "0.input_var"), "img_dim", "22.input_var")]

(* ----------------------------- BCNN.__init__ --------------------------- *)
NoFrame ==
  [pc |-> "idle", network |-> <<>>, p_conv |-> 0, last_layer |-> <<>>,
   weights |-> <<>>, n_classes |-> 0, popped |-> <<>>, status |-> ""]

\* the frame on entry; weights = <<>> is None
BCNNFrame(p_conv, last_layer, weights, n_classes) ==
  [pc |-> "build", network |-> <<>>, p_conv |-> p_conv, last_layer |-> last_layer,
   weights |-> weights, n_classes |-> n_classes, popped |-> <<>>, status |-> "ok"]

Raise(fr, exc) == [fr EXCEPT !.pc = "raise", !.status = exc]

\* the three layers added after the removal loop
AddHead(network, last_layer, n_classes) ==
  LET n1 == SetItem(network,
              ConcatLayer(network, GLOBAL_POOL, <<Pooled("mean", last_layer),
                                                  Pooled("max", last_layer)>>))
      n2 == SetItem(n1, DenseLayer(n1, SOFTMAX_INPUT, GLOBAL_POOL, n_classes,
                                   "GlorotUniform", "Constant"))
  IN SetItem(n2, NonlinearityLayer(n2, LOGREG, SOFTMAX_INPUT))

\* not network.keys()[-1] == last_layer, on a non-empty dict
LoopTest(network, last_layer) == network[Len(network)].key # last_layer

\* the removal loop guarded against the empty dict (while network and ...):
\* network[last_layer] then raises KeyError
RemoveUnusedGuarded(fr) ==
  IF fr.network = <<>> THEN Raise(fr, "KeyError")
  ELSE IF LoopTest(fr.network, fr.last_layer)
  THEN [fr EXCEPT !.network = PopItem(fr.network),
                  !.popped = Append(@, fr.network[Len(fr.network)].key)]
  ELSE [fr EXCEPT !.pc = "add"]

\* One evaluation of the test of the removal loop and, when it holds, the
\* turn of the loop it starts: keys()[-1] raises IndexError on an empty dict.
RemoveUnused(fr) ==
  IF fr.network = <<>> THEN Raise(fr, "IndexError")
  ELSE IF LoopTest(fr.network, fr.last_layer)
  THEN [fr EXCEPT !.network = PopItem(fr.network),
                  !.popped = Append(@, fr.network[Len(fr.network)].key)]
  ELSE [fr EXCEPT !.pc = "add"]

\* one step of BCNN.__init__ up to the call of Model.__init__
BCNNStep(fr, fs) ==
  CASE fr.pc = "build" ->
         LET r == build_model(DefaultWidth, DefaultWidth, ORIGINAL_WEIGHTS,
                              DefaultClasses, fr.p_conv, fs)
         IN IF r.status = "ok" THEN [fr EXCEPT !.pc = "loop", !.network = r.net]
            ELSE Raise(fr, r.status)
    [] fr.pc = "loop" -> RemoveUnused(fr)
    [] fr.pc = "add" ->
         [fr EXCEPT !.network = AddHead(fr.network, fr.last_layer, fr.n_classes),
                    !.pc = IF fr.weights = <<>> THEN "init" ELSE "load"]
    [] fr.pc = "load" ->
         LET r == load_weights(fr.network, fr.weights, fs)
         IN IF r.status = "ok" THEN [fr EXCEPT !.pc = "init", !.network = r.net]
            ELSE Raise(fr, r.status)
    [] OTHER -> fr

RECURSIVE BCNNSteps(_, _, _)
\* k steps of BCNN.__init__ (a frame that has ended stays as it is)
BCNNSteps(fr, fs, k) ==
  IF k = 0 THEN fr
  ELSE IF k = 1 THEN BCNNStep(fr, fs)
  ELSE LET half == BCNNSteps(fr, fs, k \div 2)
       IN IF half.pc \in {"init", "raise"} THEN half
          ELSE BCNNSteps(half, fs, k - k \div 2)

\* BCNN.__init__ run up to the call of Model.__init__ or to the exception:
\* build_model, at most one turn of the loop per layer and the test that
\* ends it, the new layers, load_weights
BCNNRun(fr, fs) == BCNNSteps(fr, fs, NumStatements + 4)

\* super(BCNN, self).__init__(net=network); self.inputs['X'] = ...
BCNNInit(ref) ==
  LET m == ModelInit("BCNN", ref)
  IN [m EXCEPT !.inputs = SetInput(m.inputs, "X", "0.input_var")]

(* ------------------------ save_model, weights2pickle ------------------- *)
\* pickle.dump(model, h): the instance with the dict it refers to
Pickle(m, ds) ==
  PickledModel([cls |-> m.cls, net |-> ds[m.net], inputs |-> m.inputs,
                targets |-> m.targets])

save_model(m, ds, filename, fs) == Write(fs, filename, Pickle(m, ds))

NoW2P ==
  [pc |-> "idle", name |-> <<>>, output_layer |-> <<>>, weights |-> <<>>,
   outfile |-> <<>>, model |-> 0, popped |-> <<>>, status |-> "",
   built |-> FALSE, saved |-> FALSE]

W2PFrame(name, output_layer) ==
  [NoW2P EXCEPT !.pc = "assert_name", !.name = name,
                !.output_layer = output_layer, !.status = "ok"]

\* the name of the output layer left out of the file name
OutFileNoLayer(stem, output_layer) == stem \o PKL

\* stem + output_layer + '.pkl'
OutFile(stem, output_layer) == stem \o output_layer \o PKL

\* the steps of weights2pickle that touch nothing but its local variables
W2PLocal(fr) ==
  CASE fr.pc = "assert_name" ->
         IF fr.name \in {BCNN1, BCNN2} THEN [fr EXCEPT !.pc = "select"]
         ELSE Raise(fr, "AssertionError")
    [] fr.pc = "select" ->
         IF Contains(fr.name, BCNN1)
         THEN [fr EXCEPT !.weights = WEIGHTS_BCNN1,
                         !.outfile = OutFile(OUT_BCNN1, fr.output_layer),
                         !.pc = "construct"]
         ELSE IF Contains(fr.name, BCNN2)
         THEN [fr EXCEPT !.weights = WEIGHTS_BCNN2,
                         !.outfile = OutFile(OUT_BCNN2, fr.output_layer),
                         !.pc = "construct"]
         ELSE Raise(fr, "UnboundLocalError")
    [] OTHER -> fr

(* ----------------------------- environment ----------------------------- *)
\* the weight files the repository expects under models/
NumJFParams == NumParams(Network(DefaultWidth, DefaultWidth, DefaultClasses, 0))
NumBCNNParams ==
  LET net == Network(DefaultWidth, DefaultWidth, DefaultClasses, 0)
  IN NumParams(AddHead(SubSeq(net, 1, IndexOf(net, Str(17))), Str(17), BCNNClasses))

EnvFiles ==
  (ORIGINAL_WEIGHTS :> PickledList([i \in 1..NumJFParams |-> Arr("jeffrey_df", i - 1)]))
  @@ (WEIGHTS_BCNN1 :> SavezCompressed([i \in 1..NumBCNNParams |-> Arr("bcnn1", i - 1)]))
  @@ (WEIGHTS_BCNN2 :> SavezCompressed([i \in 1..NumBCNNParams |-> Arr("bcnn2", i - 1)]))

NoSaved == [f \in {} |-> <<>>]

\* the interpreter after the module has been imported
Fresh ==
  /\ dicts = << <<>> >>
  /\ insts = <<>>
  /\ files = EnvFiles
  /\ ctor = NoFrame
  /\ w2p = NoW2P
  /\ ret = NoRet
  /\ saved = NoSaved
  /\ npops = 0

\* no call is in progress
Idle == ctor.pc \in {"idle", "done", "raise"} /\ w2p.pc \in {"idle", "done", "raise"}

(* ------------------- construction, one step at a time ------------------ *)
JFKeys == Keys(Network(DefaultWidth, DefaultWidth, DefaultClasses, 0))
JFKeySet == {JFKeys[i] : i \in 1..Len(JFKeys)}
TXT == <<"w", ".", "t", "x", "t">>

\* JFnet.build_model(n_classes=..., p_conv=..., filename=...), called directly
CallBuildModel(n_classes, p_conv, filename) ==
  /\ Fresh
  /\ LET r == build_model(DefaultWidth, DefaultWidth, filename, n_classes, p_conv, files)
     IN /\ dicts' = IF r.status = "ok" THEN Append(dicts, r.net) ELSE dicts
        /\ ret' = [NoRet EXCEPT !.op = "build_model", !.status = r.status,
                                !.who = Len(dicts) + 1, !.arg = <<n_classes, p_conv>>]
  /\ UNCHANGED <<insts, files, ctor, w2p, saved, npops>>

\* BCNN(p_conv, last_layer, weights, n_classes): entry
CallBCNN(p_conv, last_layer, weights, n_classes) ==
  /\ Fresh
  /\ ctor' = BCNNFrame(p_conv, last_layer, weights, n_classes)
  /\ UNCHANGED <<dicts, insts, files, w2p, ret, saved, npops>>

\* BCNN.__init__: build_model, one turn of the removal loop, the new layers,
\* load_weights
CtorStep ==
  /\ ctor.pc \in {"build", "loop", "add", "load"}
  /\ ctor' = BCNNStep(ctor, files)
  /\ UNCHANGED <<dicts, insts, files, w2p, ret, saved, npops>>

\* BCNN.__init__: Model.__init__ and the instance returned
CtorInit ==
  /\ ctor.pc = "init"
  /\ dicts' = Append(dicts, ctor.network)
  /\ insts' = Append(insts, BCNNInit(Len(dicts) + 1))
  /\ ctor' = [ctor EXCEPT !.pc = "done"]
  /\ UNCHANGED <<files, w2p, ret, saved, npops>>

\* weights2pickle(name, output_layer): entry
CallW2P(name, output_layer) ==
  /\ Fresh
  /\ w2p' = W2PFrame(name, output_layer)
  /\ UNCHANGED <<dicts, insts, files, ctor, ret, saved, npops>>

\* weights2pickle: the assertion on name, the choice of weights and outfile
W2PSelect ==
  /\ w2p.pc \in {"assert_name", "select"}
  /\ w2p' = W2PLocal(w2p)
  /\ UNCHANGED <<dicts, insts, files, ctor, ret, saved, npops>>

\* weights2pickle: model = BCNN(p_conv=0.2, last_layer='17', weights=weights)
W2PConstruct ==
  /\ w2p.pc = "construct"
  /\ ctor' = BCNNFrame(BCNNPConv, Str(17), w2p.weights, BCNNClasses)
  /\ w2p' = [w2p EXCEPT !.pc = "constructing"]
  /\ UNCHANGED <<dicts, insts, files, ret, saved, npops>>

\* weights2pickle: BCNN(...) has returned or raised
W2PConstructed ==
  /\ w2p.pc = "constructing"
  /\ ctor.pc \in {"done", "raise"}
  /\ w2p' = IF ctor.pc = "raise" THEN Raise(w2p, ctor.status)
            ELSE [w2p EXCEPT !.pc = "assert_layer", !.model = Len(insts),
                             !.built = TRUE]
  /\ UNCHANGED <<dicts, insts, files, ctor, ret, saved, npops>>

\* weights2pickle: assert output_layer in model.net.keys()
W2PAssertLayer ==
  /\ w2p.pc = "assert_layer"
  /\ w2p' = IF HasKey(dicts[insts[w2p.model].net], w2p.output_layer)
            THEN [w2p EXCEPT !.pc = "loop"]
            ELSE Raise(w2p, "AssertionError")
  /\ UNCHANGED <<dicts, insts, files, ctor, ret, saved, npops>>

\* weights2pickle: one turn of the removal loop, then the last assertion
W2PLoop ==
  /\ w2p.pc = "loop"
  /\ LET ref == insts[w2p.model].net
         net == dicts[ref]
     IN IF net = <<>>
        THEN w2p' = Raise(w2p, "IndexError") /\ dicts' = dicts
        ELSE IF LoopTest(net, w2p.output_layer)
        THEN /\ dicts' = [dicts EXCEPT ![ref] = PopItem(net)]
             /\ w2p' = [w2p EXCEPT !.popped = Append(@, net[Len(net)].key)]
        ELSE /\ dicts' = dicts
             /\ w2p' = [w2p EXCEPT !.pc = "save"]
  /\ UNCHANGED <<insts, files, ctor, ret, saved, npops>>

\* weights2pickle: save_model(model, outfile)
W2PSave ==
  /\ w2p.pc = "save"
  /\ files' = save_model(insts[w2p.model], dicts, w2p.outfile, files)
  /\ w2p' = [w2p EXCEPT !.pc = "done", !.saved = TRUE]
  /\ UNCHANGED <<dicts, insts, ctor, ret, saved, npops>>

\* the interpreter exits and a fresh one is started
Exit ==
  /\ Idle
  /\ ~Fresh
  /\ dicts' = << <<>> >>
  /\ insts' = <<>>
  /\ files' = EnvFiles
  /\ ctor' = NoFrame
  /\ w2p' = NoW2P
  /\ ret' = NoRet
  /\ saved' = NoSaved
  /\ npops' = 0

PConvs == {0, BCNNPConv}
LastLayers == JFKeySet \cup {LOGREG, GLOBAL_POOL, Str(32)}
\* the arguments p_conv, weights, n_classes of BCNN: the defaults, another
\* head, no dropout, the weights weights2pickle passes, an unknown format
BCNNArgs ==
  {<<BCNNPConv, <<>>, c>> : c \in {1, BCNNClasses}}
    \cup {<<0, <<>>, BCNNClasses>>, <<BCNNPConv, WEIGHTS_BCNN1, BCNNClasses>>,
          <<BCNNPConv, TXT, BCNNClasses>>}
W2PNames == {BCNN1, BCNN2, BCNN1 \o <<"2">>, <<"j", "f", "n", "e", "t">>}
BCNN17Keys ==
  {JFKeys[i] : i \in 1..30} \cup {GLOBAL_POOL, SOFTMAX_INPUT, LOGREG}
OutputLayers == BCNN17Keys \cup {Str(17) \o DSuffix, Str(18)}

CtorInit0 == Fresh

CtorNext ==
  \/ \E c \in 1..MaxClasses, p \in PConvs, f \in {<<>>, ORIGINAL_WEIGHTS} :
       CallBuildModel(c, p, f)
  \/ \E l \in LastLayers, a \in BCNNArgs : CallBCNN(a[1], l, a[2], a[3])
  \/ CtorStep
  \/ CtorInit
  \/ \E nm \in W2PNames, o \in OutputLayers : CallW2P(nm, o)
  \/ W2PSelect
  \/ W2PConstruct
  \/ W2PConstructed
  \/ W2PAssertLayer
  \/ W2PLoop
  \/ W2PSave
  \/ Exit

SpecCtor == CtorInit0 /\ [][CtorNext]_vars

(* --------------------- load_weights and save_weights ------------------- *)
W_NPZ == <<"w">> \o NPZ
E_NPZ == <<"e">> \o NPZ
W_PKL == <<"w">> \o PKL
W_NPZ_PKL == <<"w">> \o NPZ \o PKL
FileNames == {W_NPZ, E_NPZ, W_PKL, W_NPZ_PKL, TXT}
ParamCounts == {0, 1, 3, MaxParams}

\* a stack of layers with k parameter arrays in all, each array tagged
WNet(k, tag) ==
  [i \in 1..(k + 1) |->
     IF i = 1 THEN InputLayer(<<>>, Str(0), 3, <<>>)
     ELSE [key |-> Str(i - 1), kind |-> "dense", incoming |-> <<From(Str(i - 2))>>,
           n |-> 2, stride |-> 0, p |-> 0, params |-> <<Arr(tag, i - 2)>>,
           dims |-> <<>>, output_shape |-> <<NoneDim, 2>>]]

\* An archive another program wrote: its members in index order (order = 0)
\* or in reverse order.
EnvArchive(k, order) ==
  NpzFile([i \in 1..k |->
             LET j == IF order = 0 THEN i - 1 ELSE k - i
             IN Entry(ArrName(j), Arr("env", j), <<>>)])

\* a pickled dict that holds the parameter values and something else
EnvPickle(k) ==
  PickledDict(<<Entry(<<"e", "p", "o", "c", "h">>, NoArr, <<>>),
                Entry(PARAM_VALUES, NoArr, [i \in 1..k |-> Arr("pkl", i - 1)])>>)

\* two networks of the same architecture, an archive and a pickle for it
WeightsInit ==
  \E k \in ParamCounts, order \in {0, 1} :
    /\ dicts = << <<>>, WNet(k, "A"), WNet(k, "B") >>
    /\ insts = <<>>
    /\ files = (E_NPZ :> EnvArchive(k, order)) @@ (W_PKL :> EnvPickle(k))
    /\ ctor = NoFrame
    /\ w2p = NoW2P
    /\ ret = NoRet
    /\ saved = NoSaved
    /\ npops = 0

\* load_weights(layer, filename), layer the last layer of dict d
LoadWeights(d, filename) ==
  /\ LET r == load_weights(dicts[d], filename, files)
     IN /\ dicts' = [dicts EXCEPT ![d] = r.net]
        /\ ret' = [NoRet EXCEPT !.op = "load_weights", !.status = r.status,
                                !.who = d, !.fname = filename, !.opened = r.opened]
  /\ UNCHANGED <<insts, files, ctor, w2p, saved, npops>>

\* save_weights(layer, filename), layer the last layer of dict d
SaveWeights(d, filename) ==
  /\ LET r == save_weights(dicts[d], filename, files)
     IN /\ files' = r.fs
        /\ saved' = IF r.status = "ok"
                    THEN (filename :> AllParamValues(dicts[d])) @@ saved
                    ELSE saved
        /\ ret' = [NoRet EXCEPT !.op = "save_weights", !.status = r.status,
                                !.who = d, !.fname = filename,
                                !.opened = (r.status = "ok")]
  /\ UNCHANGED <<dicts, insts, ctor, w2p, npops>>

WeightsNext ==
  \/ \E d \in {2, 3}, f \in FileNames : LoadWeights(d, f)
  \/ \E d \in {2, 3}, f \in FileNames : SaveWeights(d, f)

SpecWeights == WeightsInit /\ [][WeightsNext]_vars

(* ------------------------ calls on the instances ----------------------- *)
KwArg(hasT, T, other) == [hasT |-> hasT, T |-> T, other |-> other]
\* T=0 .. T=MaxT, no keyword, T with another keyword
KwArgs ==
  {KwArg(TRUE, t, FALSE) : t \in 0..MaxT}
    \cup {KwArg(FALSE, 0, FALSE), KwArg(TRUE, 1, TRUE)}

Returned(op, status, who) == [NoRet EXCEPT !.op = op, !.status = status, !.who = who]

\* Model(), while fewer than max instances are alive
NewModel(max) ==
  /\ Idle
  /\ Len(insts) < max
  /\ insts' = Append(insts, ModelInit("Model", DefaultNet(dicts)))
  /\ ret' = Returned("Model", "ok", Len(insts) + 1)
  /\ UNCHANGED <<dicts, files, ctor, w2p, saved, npops>>

\* JFnet()
NewJFnet(max) ==
  /\ Idle
  /\ Len(insts) < max
  /\ LET r == build_model(DefaultWidth, DefaultWidth, ORIGINAL_WEIGHTS,
                          DefaultClasses, 0, files)
     IN IF r.status = "ok"
        THEN /\ dicts' = Append(dicts, r.net)
             /\ insts' = Append(insts, JFnetInit(Len(dicts) + 1, r.net))
             /\ ret' = Returned("JFnet", "ok", Len(insts) + 1)
        ELSE /\ ret' = Returned("JFnet", r.status, 0)
             /\ UNCHANGED <<dicts, insts>>
  /\ UNCHANGED <<files, ctor, w2p, saved, npops>>

\* BCNN(p_conv, last_layer, weights, n_classes), from call to return
NewBCNN(max, p_conv, last_layer, weights, n_classes) ==
  /\ Idle
  /\ Len(insts) < max
  /\ LET fr == BCNNRun(BCNNFrame(p_conv, last_layer, weights, n_classes), files)
     IN IF fr.pc = "init"
        THEN /\ dicts' = Append(dicts, fr.network)
             /\ insts' = Append(insts, BCNNInit(Len(dicts) + 1))
             /\ ret' = Returned("BCNN", "ok", Len(insts) + 1)
        ELSE /\ ret' = Returned("BCNN", fr.status, 0)
             /\ UNCHANGED <<dicts, insts>>
  /\ UNCHANGED <<files, ctor, w2p, saved, npops>>

\* m.net[key] = InputLayer(...) on an empty dict, DenseLayer(last layer, ...)
\* on another, by the code that uses instance i; layers of two units and of
\* one unit in turn
AddLayer(i) ==
  /\ Idle
  /\ i \in 1..Len(insts)
  /\ LET ref == insts[i].net
         net == dicts[ref]
         key == Str(Len(net))
         units == IF Len(net) % 2 = 0 THEN 2 ELSE 1
     IN /\ Len(net) < MaxLayers
        /\ dicts' = [dicts EXCEPT ![ref] =
             SetItem(net, IF net = <<>> THEN InputLayer(net, key, units, <<>>)
                          ELSE DenseLayer(net, key, net[Len(net)].key, units,
                                          "GlorotUniform", "Constant"))]
  /\ ret' = Returned("setitem", "ok", i)
  /\ UNCHANGED <<insts, files, ctor, w2p, saved, npops>>

\* m.net.popitem(last=True) by the code that uses instance i
PopLast(i) ==
  /\ Idle
  /\ i \in 1..Len(insts)
  /\ npops < MaxPops
  /\ LET ref == insts[i].net
     IN IF dicts[ref] = <<>>
        THEN /\ ret' = Returned("popitem", "KeyError", i)
             /\ UNCHANGED <<dicts, npops>>
        ELSE /\ dicts' = [dicts EXCEPT ![ref] = PopItem(dicts[ref])]
             /\ npops' = npops + 1
             /\ ret' = Returned("popitem", "ok", i)
  /\ UNCHANGED <<insts, files, ctor, w2p, saved>>

\* instance i: predict(*inputs) on a batch of n rows
Predict(i, n) ==
  /\ Idle
  /\ i \in 1..Len(insts)
  /\ LET r == predict(insts[i], dicts[insts[i].net], n)
     IN /\ insts' = [insts EXCEPT ![i] = r.m]
        /\ ret' = [r.ret EXCEPT !.who = i]
  /\ UNCHANGED <<dicts, files, ctor, w2p, saved, npops>>

\* instance i: mc_samples(*inputs, **kw) on a batch of n rows
McSamples(i, n, kw) ==
  /\ Idle
  /\ i \in 1..Len(insts)
  /\ LET r == mc_samples(insts[i], dicts[insts[i].net], n, kw)
     IN /\ insts' = [insts EXCEPT ![i] = r.m]
        /\ ret' = [r.ret EXCEPT !.who = i,
                                !.arg = <<IF kw.hasT THEN 1 ELSE 0, kw.T,
                                          IF kw.other THEN 1 ELSE 0>>]
  /\ UNCHANGED <<dicts, files, ctor, w2p, saved, npops>>

\* instance i: get_output_layer()
GetOutputLayer(i) ==
  /\ Idle
  /\ i \in 1..Len(insts)
  /\ ret' = [get_output_layer(dicts[insts[i].net]) EXCEPT !.who = i]
  /\ UNCHANGED <<dicts, insts, files, ctor, w2p, saved, npops>>

\* the constructor calls made: the default BCNN, one with a single class
CallsBCNNArgs == {<<BCNNPConv, Str(13), <<>>, BCNNClasses>>,
                  <<0, Str(13), <<>>, 1>>}
Batches == {1, MaxBatch}

CallsNext ==
  \/ NewModel(1)
  \/ NewJFnet(1)
  \/ \E a \in CallsBCNNArgs : NewBCNN(1, a[1], a[2], a[3], a[4])
  \/ AddLayer(1)
  \/ PopLast(1)
  \/ \E n \in Batches : Predict(1, n)
  \/ \E n \in Batches, kw \in KwArgs : McSamples(1, n, kw)
  \/ GetOutputLayer(1)
  \/ Exit

SpecCalls == Fresh /\ [][CallsNext]_vars

(* -------------------------- several instances -------------------------- *)
Instances == 1..MaxInst

ShareNext ==
  \/ NewModel(MaxInst)
  \/ NewJFnet(MaxInst)
  \/ NewBCNN(MaxInst, BCNNPConv, Str(13), <<>>, BCNNClasses)
  \/ \E i \in Instances : AddLayer(i)
  \/ \E i \in Instances : PopLast(i)
  \/ \E i \in Instances : Predict(i, 1)
  \/ \E i \in Instances : McSamples(i, 1, KwArg(TRUE, 0, FALSE))

SpecShare == Fresh /\ [][ShareNext]_vars

(* ======================= claims on construction ======================== *)
Reverse(seq) == [i \in 1..Len(seq) |-> seq[Len(seq) + 1 - i]]
HEAD == <<GLOBAL_POOL, SOFTMAX_INPUT, LOGREG>>
ConvKeys == {Str(k) : k \in {1, 3, 4, 6, 7, 9, 10, 11, 12, 14, 15, 16, 17}}
\* the dict build_model returned to the caller
Built == dicts[ret.who]
\* the layers of net that read the layer with key k
Consumers(net, k) ==
  {net[i].key : i \in {j \in 1..Len(net) :
                         \E e \in 1..Len(net[j].incoming) : net[j].incoming[e].key = k}}
\* the first convolution or pooling layer after position i of net, 0 if none
NextConvOrPool(net, i) ==
  IF \E j \in (i + 1)..Len(net) : net[j].kind \in {"conv", "pool"}
  THEN CHOOSE j \in (i + 1)..Len(net) :
         /\ net[j].kind \in {"conv", "pool"}
         /\ \A h \in (i + 1)..(j - 1) : net[h].kind \notin {"conv", "pool"}
  ELSE 0

\* C2 (as claimed): in the dict build_model returns, every convolution k has
\* a dropout layer kd with rate p_conv that reads k, the next convolution or
\* pooling layer reads kd, and nothing else reads k.
C2_DropoutAfterEveryConv ==
  (ret.op = "build_model" /\ ret.status = "ok") =>
    \A k \in ConvKeys :
      LET kd == k \o DSuffix
          nxt == NextConvOrPool(Built, IndexOf(Built, kd))
      IN /\ HasKey(Built, k) /\ Get(Built, k).kind = "conv"
         /\ HasKey(Built, kd) /\ Get(Built, kd).kind = "dropout"
         /\ Get(Built, kd).p = ret.arg[2]
         /\ Get(Built, kd).incoming = <<From(k)>>
         /\ nxt # 0 /\ Built[nxt].incoming = <<From(kd)>>
         /\ Consumers(Built, k) = {kd}

\* C7: for every n_classes and every even batch size B, layer 23 has 514
\* columns, layer 24 has B/2 rows of 1028, layer 29 has B/2 rows of
\* 2*n_classes, layers 30 and 31 have B rows of n_classes: as many rows as
\* layer 0 is given.
C7_HeadShapes ==
  (ret.op = "build_model" /\ ret.status = "ok") =>
    \A B \in {b \in 1..MaxBatch : b % 2 = 0} :
      LET sh == Forward(Built, 1, Len(Built), B, <<>>)
          At(k) == sh[IndexOf(Built, Str(k))]
          n_classes == ret.arg[1]
      IN /\ At(0)[1] = B
         /\ At(23) = <<B, 514>>
         /\ At(24) = <<B \div 2, 1028>>
         /\ At(29) = <<B \div 2, 2 * n_classes>>
         /\ At(30) = <<B, n_classes>>
         /\ At(31) = <<B, n_classes>>
         /\ Built[Len(Built)].key = Str(31)

C7_Witness ==
  /\ ret.op = "build_model" /\ ret.status = "ok"
  /\ ret.arg[1] = MaxClasses
  /\ OutShape(Built, Len(Built), MaxBatch - (MaxBatch % 2)) =
       <<MaxBatch - (MaxBatch % 2), MaxClasses>>

\* the position of last_layer in the key order of build_model
KeyIndex(k) == CHOOSE i \in 1..Len(JFKeys) : JFKeys[i] = k

\* the three layers BCNN adds, as they must read the truncated network
IsHead(net, last_layer, n_classes) ==
  LET n == Len(net)
  IN /\ n >= 4
     /\ net[n - 2].key = GLOBAL_POOL /\ net[n - 2].kind = "concat"
     /\ net[n - 2].incoming = <<Pooled("mean", last_layer), Pooled("max", last_layer)>>
     /\ net[n - 1].key = SOFTMAX_INPUT /\ net[n - 1].kind = "dense"
     /\ net[n - 1].incoming = <<From(GLOBAL_POOL)>> /\ net[n - 1].n = n_classes
     /\ net[n].key = LOGREG /\ net[n].kind = "softmax"
     /\ net[n].incoming = <<From(SOFTMAX_INPUT)>>

C5_Inv ==
  (ctor.pc # "idle" /\ ctor.last_layer \in JFKeySet) =>
    LET k == KeyIndex(ctor.last_layer)
        kept == SubSeq(JFKeys, 1, k)
    IN /\ ctor.status # "IndexError"
       /\ ctor.pc = "loop" =>
            /\ Keys(ctor.network) \o Reverse(ctor.popped) = JFKeys
            /\ Len(ctor.network) >= k
       /\ ctor.pc = "add" =>
            /\ Keys(ctor.network) = kept
            /\ ctor.popped = Reverse(SubSeq(JFKeys, k + 1, Len(JFKeys)))
       /\ ctor.pc \in {"load", "init", "done"} \/ (ctor.pc = "raise" /\ ctor.status # "IOError") =>
            /\ Keys(ctor.network) = kept \o HEAD
            /\ IsHead(ctor.network, ctor.last_layer, ctor.n_classes)
       /\ (ctor.pc = "done" /\ w2p.pc \in {"idle", "constructing"}) =>
            /\ dicts[insts[Len(insts)].net] = ctor.network
            /\ insts[Len(insts)].cls = "BCNN"

\* every turn of the removal loop leaves fewer layers
LoopVariant ==
  (ctor.pc = "loop" /\ ctor'.pc = "loop") => Len(ctor'.network) < Len(ctor.network)

\* C5: for a last_layer that is a key, the removal loop ends (each turn
\* removes a layer and it never runs past last_layer), the keys kept are the
\* prefix of the key order up to last_layer, and global_pool, softmax_input,
\* logreg are appended in that order, logreg last, global_pool reading the
\* mean- and the max-pooled last_layer.
C5_TruncateAndRehead == [](C5_Inv) /\ [][LoopVariant]_vars

C5_Witness ==
  /\ ctor.pc = "done" /\ w2p.pc = "idle"
  /\ ctor.last_layer = Str(13)
  /\ Len(ctor.popped) = Len(JFKeys) - KeyIndex(Str(13))
  /\ Keys(dicts[insts[1].net]) = SubSeq(JFKeys, 1, KeyIndex(Str(13))) \o HEAD

C9_Inv ==
  (ctor.pc # "idle" /\ ctor.last_layer \notin JFKeySet) =>
    /\ ctor.pc \in {"build", "loop", "raise"}
    /\ ctor.pc = "loop" => Keys(ctor.network) \o Reverse(ctor.popped) = JFKeys
    /\ ctor.pc = "raise" =>
         /\ ctor.status = "IndexError"
         /\ ctor.network = <<>>
         /\ ctor.popped = Reverse(JFKeys)
    /\ insts = <<>>
    /\ dicts = << <<>> >>
    /\ \A i \in 1..Len(ctor.network) : ctor.network[i].key \in JFKeySet

\* C9: for a last_layer that is not a key, every turn of the loop removes
\* the last layer, so it ends: with all layers removed in reverse key order
\* and an IndexError on the empty dict; no instance and no layer is made.
C9_PopsAllThenRaises == [](C9_Inv) /\ [][LoopVariant]_vars

C9_Witness ==
  /\ ctor.pc = "raise" /\ ctor.last_layer = LOGREG
  /\ ctor.status = "IndexError"
  /\ Len(ctor.popped) = NumStatements

\* the dict of a BCNN(last_layer='17') before weights2pickle removes layers
BCNN17KeySeq == SubSeq(JFKeys, 1, KeyIndex(Str(17))) \o HEAD
KeyIndex17(k) == CHOOSE i \in 1..Len(BCNN17KeySeq) : BCNN17KeySeq[i] = k

\* C6: weights2pickle saves, under the name made of the model's stem and
\* output_layer, a model whose dict ends with output_layer and keeps the keys
\* before it in order; a name other than bcnn1, bcnn2 fails before a model is
\* built and an output_layer that is no key fails before a layer is removed;
\* neither saves anything.
C6_Ablate ==
  (w2p.pc # "idle") =>
    /\ w2p.name \notin {BCNN1, BCNN2} =>
         /\ w2p.pc \in {"assert_name", "raise"}
         /\ w2p.pc = "raise" => w2p.status = "AssertionError"
         /\ ctor = NoFrame /\ insts = <<>> /\ dicts = << <<>> >>
    /\ w2p.output_layer \notin BCNN17Keys =>
         /\ w2p.pc \notin {"loop", "save", "done"}
         /\ w2p.popped = <<>>
         /\ (w2p.pc = "raise" /\ w2p.name \in {BCNN1, BCNN2}) =>
              /\ w2p.status = "AssertionError"
              /\ Keys(dicts[insts[w2p.model].net]) = BCNN17KeySeq
    /\ w2p.pc # "done" => (~w2p.saved /\ files = EnvFiles)
    /\ (w2p.name \in {BCNN1, BCNN2} /\ w2p.output_layer \in BCNN17Keys) =>
         /\ w2p.pc # "raise"
         /\ w2p.pc \in {"loop", "save", "done"} =>
              /\ Keys(dicts[insts[w2p.model].net]) \o Reverse(w2p.popped) = BCNN17KeySeq
              /\ Len(dicts[insts[w2p.model].net]) >= KeyIndex17(w2p.output_layer)
         /\ w2p.pc \in {"save", "done"} =>
              Keys(dicts[insts[w2p.model].net]) =
                SubSeq(BCNN17KeySeq, 1, KeyIndex17(w2p.output_layer))
         /\ w2p.pc = "done" =>
              /\ w2p.outfile = (IF w2p.name = BCNN1 THEN OUT_BCNN1 ELSE OUT_BCNN2)
                                 \o w2p.output_layer \o PKL
              /\ DOMAIN files = DOMAIN EnvFiles \cup {w2p.outfile}
              /\ files[w2p.outfile].type = "model"
              /\ files[w2p.outfile].model.net = dicts[insts[w2p.model].net]
              /\ Keys(files[w2p.outfile].model.net) =
                   SubSeq(BCNN17KeySeq, 1, KeyIndex17(w2p.output_layer))

C6_Witness ==
  /\ w2p.pc = "done" /\ w2p.name = BCNN2 /\ w2p.output_layer = GLOBAL_POOL
  /\ Len(w2p.popped) = 2
  /\ w2p.outfile \in DOMAIN files

(* ================= claims on load_weights, save_weights ================ *)
\* the arrays of an archive by the number in their names: values[i] is the
\* member called arr_<i-1>
ByIndex(entries, values) ==
  /\ Len(values) = Len(entries)
  /\ \A i \in 1..Len(values) :
       \E j \in 1..Len(entries) :
         /\ entries[j].name = ARR_ \o Str(i - 1)
         /\ entries[j].array = values[i]

C3_Step ==
  (ret'.op = "load_weights") =>
    LET f == ret'.fname
        d == ret'.who
    IN /\ EndsWith(f, NPZ) =>
            /\ ret'.opened
            /\ (f \in DOMAIN files /\ Len(files[f].entries) = NumParams(dicts[d])) =>
                 /\ ret'.status = "ok"
                 /\ ByIndex(files[f].entries, AllParamValues(dicts'[d]))
       /\ (EndsWith(f, PKL) /\ ~EndsWith(f, NPZ)) =>
            /\ ret'.opened
            /\ (f \in DOMAIN files /\ files[f].type = "dict") =>
                 \A j \in 1..Len(files[f].entries) :
                   (/\ files[f].entries[j].name = PARAM_VALUES
                    /\ Len(files[f].entries[j].list) = NumParams(dicts[d])) =>
                        /\ ret'.status = "ok"
                        /\ AllParamValues(dicts'[d]) = files[f].entries[j].list
       /\ (~EndsWith(f, PKL) /\ ~EndsWith(f, NPZ)) =>
            /\ ret'.status = "NotImplementedError"
            /\ ~ret'.opened
       /\ ret'.status # "ok" => dicts' = dicts
       /\ files' = files
       /\ \A e \in 1..Len(dicts) : e # d => dicts'[e] = dicts[e]

\* C3: load_weights chooses the format by the ending of the name: for .npz
\* the parameters become the members arr_0, arr_1, ... by index, for .pkl the
\* 'param values' item; any other ending raises NotImplementedError with no
\* file opened and no parameter changed.
C3_LoadByEnding == [][C3_Step]_vars

C3_Witness ==
  /\ ret.op = "load_weights" /\ ret.status = "ok" /\ ret.fname = E_NPZ
  /\ Len(files[E_NPZ].entries) >= 3
  /\ files[E_NPZ].entries[1].name # ARR_ \o Str(0)
  /\ AllParamValues(dicts[ret.who]) =
       [i \in 1..Len(files[E_NPZ].entries) |-> Arr("env", i - 1)]

C4_Step ==
  /\ (ret'.op = "save_weights") =>
       /\ EndsWith(ret'.fname, NPZ) =>
            /\ ret'.status = "ok"
            /\ ret'.fname \in DOMAIN files'
       /\ ~EndsWith(ret'.fname, NPZ) =>
            /\ ret'.status = "NotImplementedError"
            /\ files' = files
       /\ dicts' = dicts
  /\ (ret'.op = "load_weights" /\ EndsWith(ret'.fname, NPZ)
        /\ ret'.fname \in DOMAIN saved) =>
       /\ ret'.status = "ok"
       /\ AllParamValues(dicts'[ret'.who]) = saved[ret'.fname]

\* C4: the parameters saved to a name ending in .npz are the parameters a
\* network of the same architecture has after loading that file, each at
\* its own index, for ten and more arrays too; save_weights with another
\* ending raises NotImplementedError and writes nothing.
C4_RoundTrip == [][C4_Step]_vars

C4_Witness ==
  /\ ret.op = "load_weights" /\ ret.status = "ok" /\ ret.fname = W_NPZ
  /\ W_NPZ \in DOMAIN saved
  /\ Len(saved[W_NPZ]) >= 11
  /\ ret.who = 3
  /\ AllParamValues(dicts[3]) = AllParamValues(WNet(Len(saved[W_NPZ]), "A"))

(* ===================== claims on predict, mc_samples =================== *)
LastKey(net) == net[Len(net)].key

C1_Returned ==
  LET m == insts[ret.who]
      net == dicts[m.net]
      T == ret.T
  IN /\ Len(ret.calls) = T
     /\ Len(ret.value) = T
     /\ \A t \in 1..T :
          /\ ret.value[t] = ret.calls[t]
          /\ ~ret.calls[t].det
          /\ ret.calls[t].rows = ret.n
          /\ ret.calls[t].layer = m.predict_stoch.layer
     /\ \A t \in 1..(T - 1) : ret.calls[t + 1].rng = (ret.calls[t].rng + 1) % RngPeriod
     /\ T > 0 => m.rng = (ret.calls[T].rng + 1) % RngPeriod
     /\ ret.shape = <<ret.n, OutputShape(net, LastKey(net))[2], T>>

\* C1: a call of mc_samples that returns has run exactly T stochastic
\* passes, T the keyword or 100 without it, one after the other, pass t
\* stored in slice t, none for T = 0, and its result has the shape
\* (n, n_out, T), n_out the second dimension of the last layer of net. It
\* raises TypeError exactly when another keyword is given, else IndexError
\* exactly when net is empty, else ValueError only when T > 0 and the first
\* pass cannot be run or stored.
C1_McSamples ==
  (ret.op = "mc_samples") =>
    LET m == insts[ret.who]
        net == dicts[m.net]
    IN /\ ret.arg[3] = 0 => ret.T = (IF ret.arg[1] = 1 THEN ret.arg[2] ELSE DefaultT)
       /\ ret.status = "TypeError" <=> ret.arg[3] = 1
       /\ ret.status = "IndexError" <=> (ret.arg[3] = 0 /\ net = <<>>)
       /\ ret.status = "ValueError" =>
            /\ ret.T > 0
            /\ Len(ret.calls) <= 1
            /\ \/ m.predict_stoch.shape[ret.n] = <<>>
               \/ ~Assignable(m.predict_stoch.shape[ret.n],
                              <<ret.n, OutputShape(net, LastKey(net))[2]>>)
       /\ ret.status \in {"ok", "TypeError", "IndexError", "ValueError"}
       /\ ret.status = "ok" => C1_Returned

C1_Witness ==
  /\ ret.op = "mc_samples" /\ ret.status = "ok"
  /\ ret.arg[1] = 0
  /\ Len(ret.calls) = DefaultT
  /\ ret.n = MaxBatch
  /\ ret.shape = <<MaxBatch, BCNNClasses, DefaultT>>
  /\ insts[ret.who].cls = "BCNN"

C8_Inv ==
  \A i \in 1..Len(insts) :
    /\ insts[i].n_det <= 1
    /\ insts[i].n_stoch <= 1
    /\ insts[i].predict.compiled <=> insts[i].n_det = 1
    /\ insts[i].predict_stoch.compiled <=> insts[i].n_stoch = 1
    /\ insts[i].predict.compiled => insts[i].predict.det
    /\ insts[i].predict_stoch.compiled => ~insts[i].predict_stoch.det

C8_Step ==
  \A i \in 1..Len(insts) :
    (i <= Len(insts')) =>
      LET m == insts[i]
          m1 == insts'[i]
          net == dicts[m.net]
      IN /\ m.predict.compiled => m1.predict = m.predict
         /\ m.predict_stoch.compiled => m1.predict_stoch = m.predict_stoch
         /\ ret'.op # "mc_samples" => m1.predict_stoch = m.predict_stoch
         /\ ret'.op # "predict" => m1.predict = m.predict
         /\ (ret'.op = "mc_samples" /\ ret'.status = "TypeError") => m1 = m
         /\ (~m.predict.compiled /\ m1.predict.compiled) =>
              m1.predict.layer = LastKey(net)
         /\ (~m.predict_stoch.compiled /\ m1.predict_stoch.compiled) =>
              m1.predict_stoch.layer = LastKey(net)
         /\ (ret'.op = "predict" /\ ret'.who = i /\ ret'.status = "ok") =>
              /\ ret'.calls[1].layer = m1.predict.layer
              /\ ret'.calls[1].det
         /\ (ret'.op = "mc_samples" /\ ret'.who = i /\ ret'.status = "ok") =>
              \A t \in 1..Len(ret'.calls) :
                ret'.calls[t].layer = m1.predict_stoch.layer

\* C8: on one instance each of the two functions is compiled at most once,
\* by the first predict and by the first mc_samples with valid keywords;
\* predict leaves _predict_stoch alone and mc_samples leaves _predict alone;
\* a compiled function is never replaced and every later call runs it, for
\* the layer that was last in net when it was compiled, whatever is removed
\* from net afterwards.
C8_LazyCaches == [](C8_Inv) /\ [][C8_Step]_vars

C8_Witness ==
  /\ ret.op = "predict" /\ ret.status = "ok"
  /\ insts[ret.who].predict_stoch.compiled
  /\ dicts[insts[ret.who].net] # <<>>
  /\ ret.calls[1].layer = LOGREG
  /\ get_output_layer(dicts[insts[ret.who].net]).layer = GLOBAL_POOL

(* ======================== claims on Model.__init__ ===================== *)
Default(i) == insts[i].cls = "Model"

C10_Inv ==
  \A i \in 1..Len(insts), j \in 1..Len(insts) :
    /\ (Default(i) /\ Default(j)) =>
         /\ insts[i].net = insts[j].net
         /\ get_output_layer(dicts[insts[i].net]) = get_output_layer(dicts[insts[j].net])
    /\ (~Default(i) /\ i # j) => insts[i].net # insts[j].net
    /\ Default(i) =>
         /\ insts[i].inputs = <<Var("X", "tensor4")>>
         /\ insts[i].targets = <<Var("y", "ivector")>>

C10_Step ==
  \A i \in 1..Len(insts), j \in 1..Len(insts) :
    /\ (ret'.op \in {"setitem", "popitem"} /\ ret'.status = "ok" /\ ret'.who = i) =>
         /\ dicts'[insts[i].net] # dicts[insts[i].net]
         /\ (Default(i) /\ Default(j)) =>
              /\ dicts'[insts[j].net] = dicts'[insts[i].net]
              /\ dicts'[insts[j].net] # dicts[insts[j].net]
         /\ (~Default(i) /\ i # j) => dicts'[insts[j].net] = dicts[insts[j].net]
         /\ (~Default(j) /\ i # j) => dicts'[insts[j].net] = dicts[insts[j].net]
         /\ insts' = insts
    /\ (ret'.op \in {"predict", "mc_samples"} /\ ret'.who = i /\ i # j) =>
         /\ insts'[j] = insts[j]
         /\ dicts' = dicts
    /\ ret'.op \in {"Model", "JFnet", "BCNN"} =>
         /\ insts'[i] = insts[i]
         /\ \A d \in 1..Len(dicts) : dicts'[d] = dicts[d]

\* C10: the instances made by Model() all hold the one default dict, so a
\* layer added or removed through one of them is added or removed for each
\* of them; the dict of a JFnet or BCNN instance is held by no other
\* instance and changes through no other instance; inputs, targets and the
\* two compiled functions of an instance change only through that instance.
C10_SharedDefaultNet == [](C10_Inv) /\ [][C10_Step]_vars

C10_Witness ==
  /\ Len(insts) = 2
  /\ Default(1) /\ Default(2)
  /\ ret.op = "setitem" /\ ret.who = 2
  /\ insts[1].predict.compiled /\ ~insts[2].predict.compiled
  /\ get_output_layer(dicts[insts[1].net]).layer = Str(1)
  /\ insts[1].predict.layer = Str(0)

====
